---- MODULE Spec2Model ----
(***************************************************************************)
(* Model of lab8 (src/src/main.rs): classification of an integer point     *)
(* against a quadrant-composed figure, the coordinate validator, the       *)
(* line-based entry point set_point_location and the GET /figure handler.  *)
(* Text is modelled as a sequence of one-character strings.                *)
(***************************************************************************)
EXTENDS Integers, Sequences, FiniteSets, TLC

VARIABLES kind, pt, token, line, query, fmtIn, pc, res, calls, status, body

vars == <<kind, pt, token, line, query, fmtIn, pc, res, calls, status, body>>

(* ---------------------------------------------------------------- bounds *)
MaxTokLen == 4
MaxZeros == 10
MaxLineLen == 6
MaxTokens == 3
MaxFields == 3

(* ------------------------------------------------------ program constants *)
CoordMin == -100
CoordMax == 100
QueryLimit == 100
InnerRadius == 10
OuterRadius == 20
I32Max == 2147483647
I32Min == (-2147483647) - 1
StatusOk == 200
StatusBadRequest == 400

(* ------------------------------------------------------------------ text *)
DigitChars == <<"0", "1", "2", "3", "4", "5", "6", "7", "8", "9">>
Digits == {DigitChars[k] : k \in 1..10}
DigitVal(c) == (CHOOSE k \in 1..10 : DigitChars[k] = c) - 1
AsciiWhitespace == {" ", "\t", "\n", "\f", "\r"}

(* ------------------------------------------------------------ result type *)
Ok(v) == [tag |-> "Ok", val |-> v]
Err(e) == [tag |-> "Err", val |-> e]
NoResult == [tag |-> "None", val |-> "None"]

Relations == {"Inside", "Border", "Outside"}
Errors == {"BadFormat", "OutOfRange", "EmptyString", "OneCoord", "TooMuchCoords"}

(* ------------------------------------------------------- geometric core *)
distance_relation(distance, border) ==
  IF distance < border THEN "Inside"
  ELSE IF distance = border THEN "Border"
  ELSE "Outside"

Abs(n) == IF n < 0 THEN -n ELSE n

box_calc(x, y, border) ==
  LET ax == Abs(x)
      ay == Abs(y)
      dist == IF ay > ax THEN ay ELSE ax
  IN distance_relation(dist, border)

radii_calc(x, y, border) ==
  distance_relation(x * x + y * y, border * border)

\* call of a metric passed by value to partition
Metric(f, x, y, border) ==
  IF f = "box_calc" THEN box_calc(x, y, border) ELSE radii_calc(x, y, border)

\* partition with the inner disc kept as part of the figure
partition_keep_inside(lo, h1, x, y) ==
  LET r1 == Metric(lo, x, y, InnerRadius) IN
  IF r1 = "Border" THEN "Border"
  ELSE IF r1 = "Inside" THEN "Inside"
  ELSE LET r2 == Metric(h1, x, y, OuterRadius) IN
       IF r2 = "Border" THEN "Border"
       ELSE IF r2 = "Inside" THEN "Inside"
       ELSE "Outside"

partition(lo, h1, x, y) ==
  LET r1 == Metric(lo, x, y, InnerRadius) IN
  IF r1 = "Border" THEN "Border"
  ELSE IF r1 = "Inside" THEN "Outside"
  ELSE LET r2 == Metric(h1, x, y, OuterRadius) IN
       IF r2 = "Border" THEN "Border"
       ELSE IF r2 = "Inside" THEN "Inside"
       ELSE "Outside"

\* point_location with the two x <= 0 quadrants exchanged
point_location_swapped(x, y) ==
  IF x > 0
  THEN IF y > 0 THEN partition("box_calc", "radii_calc", x, y)
       ELSE partition("radii_calc", "radii_calc", x, y)
  ELSE IF y > 0 THEN partition("box_calc", "box_calc", x, y)
       ELSE partition("radii_calc", "box_calc", x, y)

point_location(x, y) ==
  IF x > 0
  THEN IF y > 0 THEN partition("box_calc", "radii_calc", x, y)
       ELSE partition("radii_calc", "radii_calc", x, y)
  ELSE IF y > 0 THEN partition("radii_calc", "box_calc", x, y)
       ELSE partition("box_calc", "box_calc", x, y)

(* --------------------------------------------- str::parse::<i32>() (core) *)
RECURSIVE ParseDigits(_, _, _, _)
ParseDigits(s, i, acc, neg) ==
  IF i > Len(s) THEN Ok(acc)
  ELSE IF s[i] \notin Digits THEN Err("InvalidDigit")
  ELSE LET d == DigitVal(s[i]) IN
       IF neg
       THEN IF acc < -(I32Max \div 10) THEN Err("NegOverflow")
            ELSE IF acc * 10 < I32Min + d THEN Err("NegOverflow")
            ELSE ParseDigits(s, i + 1, acc * 10 - d, neg)
       ELSE IF acc > I32Max \div 10 THEN Err("PosOverflow")
            ELSE IF acc * 10 > I32Max - d THEN Err("PosOverflow")
            ELSE ParseDigits(s, i + 1, acc * 10 + d, neg)

parse_i32(s) ==
  IF Len(s) = 0 THEN Err("Empty")
  ELSE IF Len(s) = 1 /\ s[1] \in {"+", "-"} THEN Err("InvalidDigit")
  ELSE IF s[1] = "-" THEN ParseDigits(s, 2, 0, TRUE)
  ELSE IF s[1] = "+" THEN ParseDigits(s, 2, 0, FALSE)
  ELSE ParseDigits(s, 1, 0, FALSE)

(* ------------------------------------------------- i32::to_string() (core) *)
RECURSIVE NatDigits(_)
NatDigits(n) ==
  IF n < 10 THEN <<DigitChars[n + 1]>>
  ELSE NatDigits(n \div 10) \o <<DigitChars[(n % 10) + 1]>>

RECURSIVE NegDigits(_)
NegDigits(n) ==
  LET d == (10 - (n % 10)) % 10 IN
  IF n > -10 THEN <<DigitChars[d + 1]>>
  ELSE NegDigits((n + d) \div 10) \o <<DigitChars[d + 1]>>

to_string(n) == IF n < 0 THEN <<"-">> \o NegDigits(n) ELSE NatDigits(n)

(* ------------------------------------------------- coordinate validator *)
\* parse_coord without the range arm
parse_coord_no_range(coord) ==
  LET p == parse_i32(coord) IN
  IF p.tag = "Ok" THEN Ok(p.val) ELSE Err("BadFormat")

parse_coord(coord) ==
  LET p == parse_i32(coord) IN
  IF p.tag = "Ok"
  THEN IF p.val >= CoordMin /\ p.val <= CoordMax THEN Ok(p.val)
       ELSE Err("OutOfRange")
  ELSE Err("BadFormat")

(* ------------------------------------------- str::split_ascii_whitespace *)
RECURSIVE SplitFrom(_, _, _, _)
SplitFrom(s, i, cur, acc) ==
  IF i > Len(s) THEN (IF cur = <<>> THEN acc ELSE Append(acc, cur))
  ELSE IF s[i] \in AsciiWhitespace
       THEN SplitFrom(s, i + 1, <<>>, IF cur = <<>> THEN acc ELSE Append(acc, cur))
       ELSE SplitFrom(s, i + 1, Append(cur, s[i]), acc)

split_ascii_whitespace(s) == SplitFrom(s, 1, <<>>, <<>>)

(* ---------------------------------------------- line-based entry point *)
\* result of set_point_location together with the arguments of every
\* point_location call it made
Outcome(r, c) == [res |-> r, calls |-> c]

\* set_point_location that never looks for a third token
set_point_location_two_only(ln) ==
  LET iter == split_ascii_whitespace(ln) IN
  IF Len(iter) = 0 THEN Outcome(Err("EmptyString"), <<>>)
  ELSE LET x == parse_coord(iter[1]) IN
  IF x.tag = "Err" THEN Outcome(x, <<>>)
  ELSE IF Len(iter) = 1 THEN Outcome(Err("OneCoord"), <<>>)
  ELSE LET y == parse_coord(iter[2]) IN
  IF y.tag = "Err" THEN Outcome(y, <<>>)
  ELSE Outcome(Ok(point_location(x.val, y.val)), <<<<x.val, y.val>>>>)

\* set_point_location that takes both tokens before validating either
set_point_location_count_first(ln) ==
  LET iter == split_ascii_whitespace(ln) IN
  IF Len(iter) = 0 THEN Outcome(Err("EmptyString"), <<>>)
  ELSE IF Len(iter) = 1 THEN Outcome(Err("OneCoord"), <<>>)
  ELSE LET x == parse_coord(iter[1]) IN
  IF x.tag = "Err" THEN Outcome(x, <<>>)
  ELSE LET y == parse_coord(iter[2]) IN
  IF y.tag = "Err" THEN Outcome(y, <<>>)
  ELSE IF Len(iter) >= 3 THEN Outcome(Err("TooMuchCoords"), <<>>)
  ELSE Outcome(Ok(point_location(x.val, y.val)), <<<<x.val, y.val>>>>)

set_point_location(ln) ==
  LET iter == split_ascii_whitespace(ln) IN
  IF Len(iter) = 0 THEN Outcome(Err("EmptyString"), <<>>)
  ELSE LET x == parse_coord(iter[1]) IN
  IF x.tag = "Err" THEN Outcome(x, <<>>)
  ELSE IF Len(iter) = 1 THEN Outcome(Err("OneCoord"), <<>>)
  ELSE LET y == parse_coord(iter[2]) IN
  IF y.tag = "Err" THEN Outcome(y, <<>>)
  ELSE IF Len(iter) >= 3 THEN Outcome(Err("TooMuchCoords"), <<>>)
  ELSE Outcome(Ok(point_location(x.val, y.val)), <<<<x.val, y.val>>>>)

(* ------------------------------------------------------------ rendering *)
\* format_result with the OutOfRange arm rendering the BadFormat text
format_result_shared_text(result) ==
  IF result = Ok("Outside") THEN "outside"
  ELSE IF result = Ok("Inside") THEN "inside"
  ELSE IF result = Ok("Border") THEN "border"
  ELSE IF result = Err("BadFormat") THEN "error: bad format"
  ELSE IF result = Err("EmptyString") THEN "error: empty string"
  ELSE IF result = Err("OutOfRange") THEN "error: bad format"
  ELSE IF result = Err("OneCoord") THEN "error: one coord"
  ELSE "error: too much coords"

format_result(result) ==
  IF result = Ok("Outside") THEN "outside"
  ELSE IF result = Ok("Inside") THEN "inside"
  ELSE IF result = Ok("Border") THEN "border"
  ELSE IF result = Err("BadFormat") THEN "error: bad format"
  ELSE IF result = Err("EmptyString") THEN "error: empty string"
  ELSE IF result = Err("OutOfRange") THEN "error: out of range"
  ELSE IF result = Err("OneCoord") THEN "error: one coord"
  ELSE "error: too much coords"

(* ------------------------------------------------- query deserialization *)
deserialize_coord(value) ==
  LET c == parse_i32(value) IN
  IF c.tag = "Err" THEN Err("invalid digit")
  ELSE IF c.val >= QueryLimit THEN Err("ERROR: out of range")
  ELSE Ok(c.val)

\* derived Deserialize of MyPoint with deny_unknown_fields: the fields of
\* the query string are visited in order; hx / hy are the Option<i32> slots
None == [tag |-> "None", val |-> 0]

RECURSIVE VisitMap(_, _, _, _)
VisitMap(q, i, hx, hy) ==
  IF i > Len(q.keys)
  THEN IF hx.tag = "None" THEN Err("missing field x")
       ELSE IF hy.tag = "None" THEN Err("missing field y")
       ELSE Ok(<<hx.val, hy.val>>)
  ELSE IF q.keys[i] = "x"
       THEN IF hx.tag # "None" THEN Err("duplicate field x")
            ELSE LET c == deserialize_coord(q.vx) IN
                 IF c.tag = "Err" THEN c ELSE VisitMap(q, i + 1, c, hy)
  ELSE IF q.keys[i] = "y"
       THEN IF hy.tag # "None" THEN Err("duplicate field y")
            ELSE LET c == deserialize_coord(q.vy) IN
                 IF c.tag = "Err" THEN c ELSE VisitMap(q, i + 1, hx, c)
  ELSE Err("unknown field")

\* MyPoint without deny_unknown_fields: unrecognised fields are skipped
MyPoint_ignore_unknown(q) ==
  VisitMap([q EXCEPT !.keys = SelectSeq(q.keys, LAMBDA k : k \in {"x", "y"})],
           1, None, None)

MyPoint(q) == VisitMap(q, 1, None, None)

(* ------------------------------------------------------ GET /figure *)
Reply(s, b, c) == [status |-> s, body |-> b, calls |-> c]

figure(q) ==
  LET p == MyPoint(q) IN
  IF p.tag = "Err" THEN Reply(StatusBadRequest, "Invalid query string", <<>>)
  ELSE LET ln == to_string(p.val[1]) \o <<" ">> \o to_string(p.val[2])
           o == set_point_location(ln)
       IN Reply(StatusOk, format_result(o.res), o.calls)

(* ----------------------------------------------------------------- inputs *)
SeqsUpTo(S, n) == UNION {[1..k -> S] : k \in 0..n}

TokenAlphabet == {"-", "+", "0", "1", "a"}
RECURSIVE Zeros(_)
Zeros(k) == IF k = 0 THEN <<>> ELSE <<"0">> \o Zeros(k - 1)
LongTokens ==
  {sg \o hd \o Zeros(k) : sg \in {<<>>, <<"-">>, <<"+">>},
                          hd \in {<<"1">>, <<"2">>, <<"3">>, <<"2", "2">>},
                          k \in 0..MaxZeros}
EdgeTokens ==
  {to_string(I32Max), to_string(I32Min),
   <<"2", "1", "4", "7", "4", "8", "3", "6", "4", "8">>,
   <<"-", "2", "1", "4", "7", "4", "8", "3", "6", "4", "9">>,
   <<"1", ".", "5">>, <<"0", "0", "0", "0", "0", "0", "0", "0", "0", "0", "0", "7">>}
Tokens == SeqsUpTo(TokenAlphabet, MaxTokLen) \cup LongTokens \cup EdgeTokens

SampleInts == {I32Min, -101, -100, -20, -10, 0, 5, 10, 20, 99, 100, 101, I32Max}
BadTokens == {<<>>, <<"a">>, <<"1", ".", "5">>,
              <<"2", "1", "4", "7", "4", "8", "3", "6", "4", "8">>}

LineAlphabet == {" ", "\t", "-", "1", "a"}
SampleTokens == {to_string(n) : n \in {-101, -100, 0, 10, 100, 101}}
                  \cup {<<"a", "b", "c">>, <<"+", "5">>,
                        <<"3", "0", "0", "0", "0", "0", "0", "0", "0", "0">>}
RECURSIVE Join(_)
Join(ts) == IF Len(ts) = 0 THEN <<>>
            ELSE IF Len(ts) = 1 THEN ts[1]
            ELSE ts[1] \o <<" ">> \o Join(Tail(ts))
Lines == SeqsUpTo(LineAlphabet, MaxLineLen)
           \cup {Join(ts) : ts \in SeqsUpTo(SampleTokens, MaxTokens)}

FieldNames == {"x", "y", "z"}
QueryValues == {to_string(n) : n \in SampleInts} \cup BadTokens
Queries == [keys : SeqsUpTo(FieldNames, MaxFields), vx : QueryValues, vy : QueryValues]

Results == {Ok(r) : r \in Relations} \cup {Err(e) : e \in Errors}

NoQuery == [keys |-> <<>>, vx |-> <<>>, vy |-> <<>>]

(* ------------------------------------------------------------ the machine *)
Idle(k) ==
  /\ kind = k
  /\ pc = "pending"
  /\ res = NoResult
  /\ calls = <<>>
  /\ status = 0
  /\ body = ""

Init ==
  \/ /\ Idle("point_location")
     /\ pt \in (CoordMin..CoordMax) \X (CoordMin..CoordMax)
     /\ token = <<>> /\ line = <<>> /\ query = NoQuery /\ fmtIn = NoResult
  \/ /\ Idle("parse_coord")
     /\ token \in Tokens
     /\ pt = <<0, 0>> /\ line = <<>> /\ query = NoQuery /\ fmtIn = NoResult
  \/ /\ Idle("set_point_location")
     /\ line \in Lines
     /\ pt = <<0, 0>> /\ token = <<>> /\ query = NoQuery /\ fmtIn = NoResult
  \/ /\ Idle("figure")
     /\ query \in Queries
     /\ pt = <<0, 0>> /\ token = <<>> /\ line = <<>> /\ fmtIn = NoResult
  \/ /\ Idle("format_result")
     /\ fmtIn \in Results
     /\ pt = <<0, 0>> /\ token = <<>> /\ line = <<>> /\ query = NoQuery

PointLocation ==
  /\ kind = "point_location" /\ pc = "pending"
  /\ pc' = "done"
  /\ res' = Ok(point_location(pt[1], pt[2]))
  /\ calls' = <<pt>>
  /\ UNCHANGED <<kind, pt, token, line, query, fmtIn, status, body>>

ParseCoord ==
  /\ kind = "parse_coord" /\ pc = "pending"
  /\ pc' = "done"
  /\ res' = parse_coord(token)
  /\ UNCHANGED <<kind, pt, token, line, query, fmtIn, calls, status, body>>

SetPointLocation ==
  /\ kind = "set_point_location" /\ pc = "pending"
  /\ pc' = "done"
  /\ LET o == set_point_location(line) IN
       /\ res' = o.res
       /\ calls' = o.calls
  /\ UNCHANGED <<kind, pt, token, line, query, fmtIn, status, body>>

Figure ==
  /\ kind = "figure" /\ pc = "pending"
  /\ pc' = "done"
  /\ LET r == figure(query) IN
       /\ status' = r.status
       /\ body' = r.body
       /\ calls' = r.calls
  /\ UNCHANGED <<kind, pt, token, line, query, fmtIn, res>>

FormatResult ==
  /\ kind = "format_result" /\ pc = "pending"
  /\ pc' = "done"
  /\ body' = format_result(fmtIn)
  /\ UNCHANGED <<kind, pt, token, line, query, fmtIn, res, calls, status>>

Next == PointLocation \/ ParseCoord \/ SetPointLocation \/ Figure \/ FormatResult

Spec == Init /\ [][Next]_vars

TypeOK ==
  /\ pc \in {"pending", "done"}
  /\ status \in {0, StatusOk, StatusBadRequest}

Done(k) == kind = k /\ pc = "done"

(* ===================================================== C1, C2: geometry *)
RefMax(a, b) == IF a >= b THEN a ELSE b
RefBoxDist(x, y) == RefMax(Abs(x), Abs(y))
RefRadialDist(x, y) == x * x + y * y
RefInner(x, y) ==
  IF (x > 0 /\ y > 0) \/ (x <= 0 /\ y <= 0) THEN "box" ELSE "radial"
RefOuter(x, y) ==
  IF x > 0 THEN "radial" ELSE "box"
RefDist(m, x, y) == IF m = "box" THEN RefBoxDist(x, y) ELSE RefRadialDist(x, y)
RefThreshold(m, r) == IF m = "box" THEN r ELSE r * r
RefLocation(x, y) ==
  LET di == RefDist(RefInner(x, y), x, y)
      ti == RefThreshold(RefInner(x, y), 10)
      do == RefDist(RefOuter(x, y), x, y)
      to == RefThreshold(RefOuter(x, y), 20)
  IN IF di = ti THEN "Border"
     ELSE IF di < ti THEN "Outside"
     ELSE IF do < to THEN "Inside"
     ELSE IF do = to THEN "Border"
     ELSE "Outside"

\* C1: for every x, y in [-100, 100] point_location(x, y) equals the
\* two-stage reference rule over the sign table (box/radial, radial/radial,
\* radial/box, box/box), zero taking the non-positive branch of its axis.
C1_MatchesReference ==
  Done("point_location") => res = Ok(RefLocation(pt[1], pt[2]))

C1_Witness ==
  /\ Done("point_location")
  /\ pt = <<-20, 1>>
  /\ res = Ok("Border")

\* C2: a point whose inner-metric distance is strictly below the inner
\* radius 10 is Outside (never Inside or Border); the origin is Outside.
C2_Hole ==
  Done("point_location") =>
    /\ (RefDist(RefInner(pt[1], pt[2]), pt[1], pt[2])
           < RefThreshold(RefInner(pt[1], pt[2]), 10)) => res = Ok("Outside")
    /\ pt = <<0, 0>> => res = Ok("Outside")

C2_Witness ==
  /\ Done("point_location")
  /\ pt = <<0, 0>>
  /\ res = Ok("Outside")

(* ================================================ C3: coordinate validator *)
Unsigned(t) == IF Len(t) > 0 /\ t[1] \in {"+", "-"} THEN Tail(t) ELSE t
IsInteger(t) ==
  /\ Len(Unsigned(t)) > 0
  /\ \A i \in 1..Len(Unsigned(t)) : Unsigned(t)[i] \in Digits
RECURSIVE StripZeros(_)
StripZeros(ds) == IF Len(ds) > 1 /\ ds[1] = "0" THEN StripZeros(Tail(ds)) ELSE ds
RECURSIVE SmallValue(_)
SmallValue(ds) ==
  IF Len(ds) = 0 THEN 0
  ELSE SmallValue(SubSeq(ds, 1, Len(ds) - 1)) * 10 + DigitVal(ds[Len(ds)])
\* the value of an integer token when its magnitude is below 1000
Magnitude(t) == SmallValue(StripZeros(Unsigned(t)))
IsSmall(t) == Len(StripZeros(Unsigned(t))) <= 3
ValueOf(t) == IF t[1] = "-" THEN -Magnitude(t) ELSE Magnitude(t)
InCoordRange(t) == IsSmall(t) /\ Magnitude(t) <= 100

\* C3: parse_coord fails with BadFormat exactly when the token is not a
\* base-10 signed integer, with OutOfRange exactly when it is one whose
\* value is outside [-100, 100], however large, and otherwise returns the
\* integer unchanged.
C3_ValidatorByValue ==
  Done("parse_coord") =>
    IF ~IsInteger(token) THEN res = Err("BadFormat")
    ELSE IF ~InCoordRange(token) THEN res = Err("OutOfRange")
    ELSE res = Ok(ValueOf(token))

(* ============================================ C4, C10: line entry point *)
LineTokens == split_ascii_whitespace(line)
ValidTok(i) == parse_coord(LineTokens[i]).tag = "Ok"

\* C4 as stated: zero tokens yield EmptyString, exactly one token yields
\* OneCoord, more than two tokens yield TooMuchCoords.
C4_CountPolicy ==
  Done("set_point_location") =>
    /\ Len(LineTokens) = 0 => res = Err("EmptyString")
    /\ Len(LineTokens) = 1 => res = Err("OneCoord")
    /\ Len(LineTokens) > 2 => res = Err("TooMuchCoords")

\* C4 amended: zero tokens yield EmptyString; exactly one token yields
\* OneCoord when that token is a valid coordinate; more than two tokens
\* yield TooMuchCoords when the first two tokens are valid coordinates.
C4_CountPolicyValidTokens ==
  Done("set_point_location") =>
    /\ Len(LineTokens) = 0 => res = Err("EmptyString")
    /\ (Len(LineTokens) = 1 /\ ValidTok(1)) => res = Err("OneCoord")
    /\ (Len(LineTokens) > 2 /\ ValidTok(1) /\ ValidTok(2))
         => res = Err("TooMuchCoords")

C4_Witness ==
  /\ Done("set_point_location")
  /\ Len(LineTokens) > 2
  /\ ValidTok(1) /\ ValidTok(2)
  /\ res = Err("TooMuchCoords")

\* the five checks in order; each is "pass" or the error it raises
CheckAt(k) ==
  LET n == Len(LineTokens) IN
  IF k = 1 THEN (IF n >= 1 THEN "pass" ELSE "EmptyString")
  ELSE IF k = 2 THEN (IF n >= 1 /\ ~ValidTok(1)
                      THEN parse_coord(LineTokens[1]).val ELSE "pass")
  ELSE IF k = 3 THEN (IF n >= 2 THEN "pass" ELSE "OneCoord")
  ELSE IF k = 4 THEN (IF n >= 2 /\ ~ValidTok(2)
                      THEN parse_coord(LineTokens[2]).val ELSE "pass")
  ELSE (IF n >= 3 THEN "TooMuchCoords" ELSE "pass")
Failing == {k \in 1..5 : CheckAt(k) # "pass"}
FirstFailing == CHOOSE k \in Failing : \A j \in Failing : k <= j

\* C10: the result is the error of the first failing check in the order
\* token 1 present, token 1 valid, token 2 present, token 2 valid, no third
\* token; a bad first token wins over a wrong token count, and OneCoord /
\* TooMuchCoords only follow valid inspected tokens.
C10_ErrorPrecedence ==
  Done("set_point_location") =>
    /\ IF Failing = {} THEN res.tag = "Ok" ELSE res = Err(CheckAt(FirstFailing))
    /\ (Len(LineTokens) >= 1 /\ ~ValidTok(1)) => res = parse_coord(LineTokens[1])
    /\ res = Err("OneCoord") => ValidTok(1)
    /\ res = Err("TooMuchCoords") => (ValidTok(1) /\ ValidTok(2))

C10_Witness ==
  /\ Done("set_point_location")
  /\ Len(LineTokens) > 2
  /\ ~ValidTok(1)
  /\ res = Err("OutOfRange")

(* ===================================== C5: validation before the core *)
InRangePair(c) == c[1] \in -100..100 /\ c[2] \in -100..100
ErrorBodies == {"error: bad format", "error: empty string", "error: out of range",
                "error: one coord", "error: too much coords", "Invalid query string"}
Lower(r) == IF r = "Inside" THEN "inside"
            ELSE IF r = "Border" THEN "border" ELSE "outside"
ExactFields(q) == q.keys \in {<<"x", "y">>, <<"y", "x">>}
ValidValue(v) == parse_coord(v).tag = "Ok"

\* C5: on the line path and on the query path point_location only runs
\* with both arguments in [-100, 100]; an input with a bad coordinate or a
\* wrong token / field count gives an error result with no point_location
\* call, and a success is the classification of the single call made.
C5_ValidatedBeforeCore ==
  /\ Done("set_point_location") =>
       /\ \A i \in 1..Len(calls) : InRangePair(calls[i])
       /\ (Len(LineTokens) # 2 \/ ~ValidTok(1) \/ ~ValidTok(2))
            => (res.tag = "Err" /\ calls = <<>>)
       /\ res.tag = "Err" => calls = <<>>
       /\ res.tag = "Ok" =>
            (Len(calls) = 1 /\ res.val = point_location(calls[1][1], calls[1][2]))
  /\ Done("figure") =>
       /\ \A i \in 1..Len(calls) : InRangePair(calls[i])
       /\ (~ExactFields(query) \/ ~ValidValue(query.vx) \/ ~ValidValue(query.vy))
            => (body \in ErrorBodies /\ calls = <<>>)
       /\ body \in ErrorBodies => calls = <<>>
       /\ body \notin ErrorBodies =>
            (Len(calls) = 1 /\ body = Lower(point_location(calls[1][1], calls[1][2])))

C5_Witness ==
  /\ Done("figure")
  /\ ExactFields(query)
  /\ query.vx = to_string(-101)
  /\ body = "error: out of range"
  /\ calls = <<>>

(* ================================================ C6, C7, C8: GET /figure *)
\* C6: a request with exactly the fields x and y, each an integer in
\* [-100, 100] endpoints included, is answered 200 with the lowercase
\* relation of point_location(x, y).
C6_WholeRangeAccepted ==
  (Done("figure") /\ ExactFields(query)
     /\ ValidValue(query.vx) /\ ValidValue(query.vy)) =>
    /\ status = 200
    /\ body = Lower(point_location(parse_coord(query.vx).val,
                                   parse_coord(query.vy).val))

\* C7: a request whose coordinate is out of [-100, 100] or not an integer
\* gets a client-error status, a classified request gets a success status,
\* and no validation failure is answered with a success status.
C7_StatusMapping ==
  Done("figure") =>
    /\ (ExactFields(query) /\ (~ValidValue(query.vx) \/ ~ValidValue(query.vy)))
         => status \in 400..499
    /\ calls # <<>> => status \in 200..299
    /\ body \in ErrorBodies => status \notin 200..299

HasField(q, k) == \E i \in 1..Len(q.keys) : q.keys[i] = k

\* C8: a request carrying a field other than x and y, or missing x or y,
\* is answered 400 Bad Request and never classified, whatever x and y are.
C8_StrictFieldSet ==
  (Done("figure")
     /\ (HasField(query, "z") \/ ~HasField(query, "x") \/ ~HasField(query, "y"))) =>
    /\ status = 400
    /\ calls = <<>>
    /\ body \notin {"inside", "border", "outside"}

C8_Witness ==
  /\ Done("figure")
  /\ query.keys = <<"x", "y", "z">>
  /\ query.vx = to_string(10) /\ query.vy = to_string(10)
  /\ status = 400
  /\ calls = <<>>

(* ====================================================== C9: rendering *)
RenderTable(r) ==
  CASE r = Ok("Inside") -> "inside"
    [] r = Ok("Border") -> "border"
    [] r = Ok("Outside") -> "outside"
    [] r = Err("BadFormat") -> "error: bad format"
    [] r = Err("EmptyString") -> "error: empty string"
    [] r = Err("OutOfRange") -> "error: out of range"
    [] r = Err("OneCoord") -> "error: one coord"
    [] r = Err("TooMuchCoords") -> "error: too much coords"

\* C9: format_result renders each of the eight outcomes as its own
\* literal, injectively, so a failure never renders as a success.
C9_Rendering ==
  Done("format_result") =>
    /\ body = RenderTable(fmtIn)
    /\ \A r \in Results : r # fmtIn => format_result(r) # body
    /\ fmtIn.tag = "Err" => body \notin {"inside", "border", "outside"}

C9_Witness ==
  /\ Done("format_result")
  /\ fmtIn = Err("TooMuchCoords")
  /\ body = "error: too much coords"
====
